---- MODULE Spec2Model ----
(***************************************************************************)
(* College Debt vs Salary Calculator: the App component of src/src/App.tsx *)
(* as a state machine.  The state is the `values` record held by useState  *)
(* and the figures the last render put on screen.  Every field of `values` *)
(* is a JavaScript number; numbers are modelled as binary floating-point   *)
(* values with round-to-nearest-even, +/-Infinity and NaN, the exponent    *)
(* range of IEEE binary64 and a significand of Precision bits.             *)
(***************************************************************************)
EXTENDS Integers, Sequences, FiniteSets

(***************************************************************************)
(* Numbers.  A finite number is m * 2^e with m an odd integer (the sign is *)
(* the sign of m) or m = 0, e = 0; -0 and +0 are one value (the program    *)
(* only compares zeros and divides by a zero that is 1 - 1 = +0).          *)
(***************************************************************************)

\* Significand width of the model's numbers (binary64 has 53).
Precision == 13

\* binary64: every finite number is below 2^MaxExp.
MaxExp == 1024

\* binary64: every finite number is a multiple of 2^MinExp.
MinExp == -1074

NaN == [k |-> "nan", m |-> 0, e |-> 0]

Inf(s) == [k |-> "inf", m |-> s, e |-> 0]

Zero == [k |-> "fin", m |-> 0, e |-> 0]

Abs(n) == IF n < 0 THEN -n ELSE n

Sgn(n) == IF n < 0 THEN -1 ELSE 1

Max(a, b) == IF a >= b THEN a ELSE b

RECURSIVE BitLen(_)
BitLen(n) == IF n = 0 THEN 0 ELSE 1 + BitLen(n \div 2)

\* m * 2^e in canonical form: m odd, or zero.
RECURSIVE Fin(_, _)
Fin(m, e) ==
    IF m = 0 THEN Zero
    ELSE IF m % 2 = 0 THEN Fin(m \div 2, e + 1)
    ELSE [k |-> "fin", m |-> m, e |-> e]

IsNaN(a) == a.k = "nan"

IsInf(a) == a.k = "inf"

IsFin(a) == a.k = "fin"

IsZero(a) == a.k = "fin" /\ a.m = 0

\* The sign of a number that is not NaN (zero counts as positive).
SignOf(a) == Sgn(a.m)

\* Position of the leading bit of a finite non-zero number.
Top(a) == BitLen(Abs(a.m)) + a.e

\* s * (m + f) * 2^e, 0 <= f < 1 and (f > 0 iff sticky), rounded to nearest,
\* ties to even, on Precision bits; gradual underflow, overflow to Infinity.
Round(s, m, e, sticky) ==
    LET drop == Max(Max(BitLen(m) - Precision, MinExp - e), 0)
    IN  IF drop = 0 THEN
            IF BitLen(m) + e > MaxExp THEN Inf(s) ELSE Fin(s * m, e)
        ELSE IF drop > BitLen(m) THEN Zero
        ELSE
            LET unit == 2 ^ drop
                q    == m \div unit
                rem  == m % unit
                half == unit \div 2
                up   == rem > half \/ (rem = half /\ (sticky \/ q % 2 = 1))
                r    == IF up THEN q + 1 ELSE q
            IN  IF BitLen(r) + e + drop > MaxExp THEN Inf(s)
                ELSE Fin(s * r, e + drop)

\* The number value of an integer literal.
Num(n) == Round(Sgn(n), Abs(n), 0, FALSE)

Neg(a) == IF IsNaN(a) THEN NaN ELSE [a EXCEPT !.m = -a.m]

\* a * b
Mul(a, b) ==
    IF IsNaN(a) \/ IsNaN(b) THEN NaN
    ELSE IF IsInf(a) \/ IsInf(b) THEN
        IF IsZero(a) \/ IsZero(b) THEN NaN ELSE Inf(SignOf(a) * SignOf(b))
    ELSE Round(SignOf(a) * SignOf(b), Abs(a.m) * Abs(b.m), a.e + b.e, FALSE)

\* a / b
Div(a, b) ==
    IF IsNaN(a) \/ IsNaN(b) THEN NaN
    ELSE IF IsInf(a) THEN
        IF IsInf(b) THEN NaN ELSE Inf(SignOf(a) * SignOf(b))
    ELSE IF IsInf(b) THEN Zero
    ELSE IF IsZero(b) THEN
        IF IsZero(a) THEN NaN ELSE Inf(SignOf(a))
    ELSE IF IsZero(a) THEN Zero
    ELSE
        LET sh  == Precision + 2 + BitLen(Abs(b.m)) - BitLen(Abs(a.m))
            num == Abs(a.m) * 2 ^ sh
        IN  Round(SignOf(a) * SignOf(b), num \div Abs(b.m), a.e - b.e - sh,
                  num % Abs(b.m) # 0)

\* hi + lo for finite non-zero numbers with Top(hi) >= Top(lo).
AddOrdered(hi, lo) ==
    LET g      == Precision + 3 - BitLen(Abs(hi.m))
        e      == hi.e - g
        mh     == Abs(hi.m) * 2 ^ g
        sh     == lo.e - e
        exact  == sh >= 0
        far    == -sh > Precision + 3
        ml     == IF exact THEN Abs(lo.m) * 2 ^ sh
                  ELSE IF far THEN 0
                  ELSE Abs(lo.m) \div 2 ^ (-sh)
        sticky == IF exact THEN FALSE
                  ELSE IF far THEN TRUE
                  ELSE Abs(lo.m) % 2 ^ (-sh) # 0
        same   == SignOf(hi) = SignOf(lo)
        sum    == IF same THEN mh + ml
                  ELSE mh - ml - (IF sticky THEN 1 ELSE 0)
    IN  IF sum = 0 /\ ~sticky THEN Zero
        ELSE Round(SignOf(hi) * Sgn(sum), Abs(sum), e, sticky)

\* a + b
Add(a, b) ==
    IF IsNaN(a) \/ IsNaN(b) THEN NaN
    ELSE IF IsInf(a) THEN
        IF IsInf(b) /\ SignOf(a) # SignOf(b) THEN NaN ELSE a
    ELSE IF IsInf(b) THEN b
    ELSE IF IsZero(a) THEN b
    ELSE IF IsZero(b) THEN a
    ELSE IF Top(a) >= Top(b) THEN AddOrdered(a, b)
    ELSE AddOrdered(b, a)

\* a - b
Sub(a, b) == Add(a, Neg(b))

\* a > b for finite numbers.
FinGt(a, b) ==
    IF IsZero(a) THEN b.m < 0
    ELSE IF IsZero(b) THEN a.m > 0
    ELSE IF SignOf(a) # SignOf(b) THEN a.m > 0
    ELSE IF Top(a) # Top(b) THEN (Top(a) > Top(b)) = (a.m > 0)
    ELSE LET e == IF a.e < b.e THEN a.e ELSE b.e
         IN  a.m * 2 ^ (a.e - e) > b.m * 2 ^ (b.e - e)

\* a > b: false when either side is NaN.
Gt(a, b) ==
    IF IsNaN(a) \/ IsNaN(b) THEN FALSE
    ELSE IF IsInf(a) THEN a.m > 0 /\ a # b
    ELSE IF IsInf(b) THEN b.m < 0
    ELSE FinGt(a, b)

\* a <= b: false when either side is NaN.
Le(a, b) == ~IsNaN(a) /\ ~IsNaN(b) /\ ~Gt(a, b)

\* a >= b: false when either side is NaN.
Ge(a, b) == Le(b, a)

\* base^n for a natural n, by squaring.
RECURSIVE PowNat(_, _)
PowNat(base, n) ==
    IF n = 0 THEN Num(1)
    ELSE IF n = 1 THEN base
    ELSE LET h == PowNat(base, n \div 2)
             s == Mul(h, h)
         IN  IF n % 2 = 1 THEN Mul(s, base) ELSE s

\* Whether a finite number is an integer, and that integer.
IsInt(a) == IsFin(a) /\ a.e >= 0

IntOf(a) == a.m * 2 ^ a.e

\* Math.pow(base, y) for an integral y, by repeated multiplication: the
\* exponent is totalPayments, 12 times a repaymentTerm that is 10 or comes
\* from parseInt.
Pow(base, y) ==
    IF IsZero(y) THEN Num(1)
    ELSE IF IsNaN(base) \/ ~IsInt(y) THEN NaN
    ELSE IF y.m > 0 THEN PowNat(base, IntOf(y))
    ELSE Div(Num(1), PowNat(base, -IntOf(y)))

(***************************************************************************)
(* What an <input type="number"> hands to its onChange handler: the text   *)
(* of the field, a sequence of characters (empty when the field is empty). *)
(***************************************************************************)

Digits == <<"0", "1", "2", "3", "4", "5", "6", "7", "8", "9">>

IsDigit(c) == \E i \in 1..Len(Digits) : Digits[i] = c

DigitVal(c) == (CHOOSE i \in 1..Len(Digits) : Digits[i] = c) - 1

\* The character at position i, or "" past the end.
At(s, i) == IF i >= 1 /\ i <= Len(s) THEN s[i] ELSE ""

RECURSIVE SkipWs(_, _)
SkipWs(s, i) == IF At(s, i) = " " THEN SkipWs(s, i + 1) ELSE i

RECURSIVE SkipDigits(_, _)
SkipDigits(s, i) == IF IsDigit(At(s, i)) THEN SkipDigits(s, i + 1) ELSE i

\* The decimal value of s[i..j-1] appended to the digits already read (acc).
RECURSIVE DigitsVal(_, _, _, _)
DigitsVal(s, i, j, acc) ==
    IF i >= j THEN acc ELSE DigitsVal(s, i + 1, j, acc * 10 + DigitVal(s[i]))

\* parseInt(s), radix 10: leading blanks, a sign, the longest run of digits;
\* NaN when there is no digit.  What follows the digits is ignored.
parseInt(s) ==
    LET i0 == SkipWs(s, 1)
        i1 == IF At(s, i0) \in {"+", "-"} THEN i0 + 1 ELSE i0
        j  == SkipDigits(s, i1)
        sg == IF At(s, i0) = "-" THEN -1 ELSE 1
    IN  IF j = i1 THEN NaN ELSE Num(sg * DigitsVal(s, i1, j, 0))

\* parseFloat(s): leading blanks, a sign, digits with an optional fraction
\* and an optional exponent; NaN when there is no digit.  The decimal value
\* digits * 10^scale is formed with the model's multiplication or division.
parseFloat(s) ==
    LET i0    == SkipWs(s, 1)
        i1    == IF At(s, i0) \in {"+", "-"} THEN i0 + 1 ELSE i0
        sg    == IF At(s, i0) = "-" THEN -1 ELSE 1
        a     == SkipDigits(s, i1)
        dot   == At(s, a) = "."
        b     == IF dot THEN SkipDigits(s, a + 1) ELSE a
        nfrac == IF dot THEN b - (a + 1) ELSE 0
        mant  == DigitsVal(s, a + 1, b, DigitsVal(s, i1, a, 0))
        hasE  == At(s, b) \in {"e", "E"}
        x0    == IF At(s, b + 1) \in {"+", "-"} THEN b + 2 ELSE b + 1
        x1    == SkipDigits(s, x0)
        xsg   == IF At(s, b + 1) = "-" THEN -1 ELSE 1
        expo  == IF hasE /\ x1 > x0 THEN xsg * DigitsVal(s, x0, x1, 0) ELSE 0
        scale == expo - nfrac
    IN  IF (a - i1) + nfrac = 0 THEN NaN
        ELSE IF scale >= 0 THEN Mul(Num(sg * mant), PowNat(Num(10), scale))
        ELSE Div(Num(sg * mant), PowNat(Num(10), -scale))

\* x || 0: NaN and zero are falsy.
OrZero(x) == IF IsNaN(x) \/ IsZero(x) THEN Zero ELSE x

(***************************************************************************)
(* The component.                                                          *)
(***************************************************************************)

Fields == {"totalDebt", "annualSalary", "interestRate", "repaymentTerm"}

\* useState's initial record.
InitialValues ==
    [totalDebt     |-> Num(45000),
     annualSalary  |-> Num(55000),
     interestRate  |-> Div(Num(65), Num(10)),
     repaymentTerm |-> Num(10)]

\* handleChange spreading the initial record instead of prev.
handleChange_ResetOthers(prev, field, value) ==
    [InitialValues EXCEPT ![field] = value]

\* The updater handleChange passes to setValues: { ...prev, [field]: value }.
handleChange(prev, field, value) == [prev EXCEPT ![field] = value]

\* The salary guard written >= 0.
debtToIncomeRatio_GuardGe(v) ==
    IF Ge(v.annualSalary, Zero) THEN Div(v.totalDebt, v.annualSalary) ELSE Zero

debtToIncomeRatio(v) ==
    IF Gt(v.annualSalary, Zero) THEN Div(v.totalDebt, v.annualSalary) ELSE Zero

monthlyRate(v) == Div(Div(v.interestRate, Num(100)), Num(12))

totalPayments(v) == Mul(v.repaymentTerm, Num(12))

\* The amortizing branch taken without looking at totalPayments.
monthlyPayment_NoTermGuard(v) ==
    LET r == monthlyRate(v)
        n == totalPayments(v)
    IN  IF Gt(r, Zero) THEN
            Div(Mul(Mul(v.totalDebt, r), Pow(Add(Num(1), r), n)),
                Sub(Pow(Add(Num(1), r), n), Num(1)))
        ELSE IF Gt(n, Zero) THEN Div(v.totalDebt, n)
        ELSE Zero

\* The zero-interest branch dividing by the years, not the months.
monthlyPayment_PerYear(v) ==
    LET r == monthlyRate(v)
        n == totalPayments(v)
    IN  IF Gt(r, Zero) /\ Gt(n, Zero) THEN
            Div(Mul(Mul(v.totalDebt, r), Pow(Add(Num(1), r), n)),
                Sub(Pow(Add(Num(1), r), n), Num(1)))
        ELSE IF Gt(n, Zero) THEN Div(v.totalDebt, v.repaymentTerm)
        ELSE Zero

\* The straight-line branch tested before the amortizing one.
monthlyPayment_LinearFirst(v) ==
    LET r == monthlyRate(v)
        n == totalPayments(v)
    IN  IF Gt(n, Zero) THEN Div(v.totalDebt, n)
        ELSE IF Gt(r, Zero) /\ Gt(n, Zero) THEN
            Div(Mul(Mul(v.totalDebt, r), Pow(Add(Num(1), r), n)),
                Sub(Pow(Add(Num(1), r), n), Num(1)))
        ELSE Zero

monthlyPayment(v) ==
    LET r == monthlyRate(v)
        n == totalPayments(v)
    IN  IF Gt(r, Zero) /\ Gt(n, Zero) THEN
            Div(Mul(Mul(v.totalDebt, r), Pow(Add(Num(1), r), n)),
                Sub(Pow(Add(Num(1), r), n), Num(1)))
        ELSE IF Gt(n, Zero) THEN Div(v.totalDebt, n)
        ELSE Zero

monthlyGrossIncome(v) == Div(v.annualSalary, Num(12))

paymentToIncomeRatio(v) ==
    IF Gt(monthlyGrossIncome(v), Zero)
    THEN Mul(Div(monthlyPayment(v), monthlyGrossIncome(v)), Num(100))
    ELSE Zero

\* The thresholds compared with >=.
affordabilityStatus_Ge(ratio) ==
    IF Ge(ratio, Num(20)) THEN "Stretched"
    ELSE IF Ge(ratio, Num(10)) THEN "Moderate"
    ELSE "Comfortable"

affordabilityStatus(ratio) ==
    IF Gt(ratio, Num(20)) THEN "Stretched"
    ELSE IF Gt(ratio, Num(10)) THEN "Moderate"
    ELSE "Comfortable"

\* One run of the component's body: the figures the JSX puts on screen.
App(v) ==
    [debtToIncomeRatio    |-> debtToIncomeRatio(v),
     monthlyPayment       |-> monthlyPayment(v),
     paymentToIncomeRatio |-> paymentToIncomeRatio(v),
     affordabilityStatus  |-> affordabilityStatus(paymentToIncomeRatio(v))]

\* The figures kept from the render before the update.
Rendered_Stale(prev, next) == App(prev)

\* setValues schedules a render of the component with the new record.
Rendered(prev, next) == App(next)

\* The texts typed into the four fields.
DebtEntries ==
    {<<>>, <<"-", "1", "0", "0", "0">>, <<"1", "0", "0", "0">>,
     <<"1", "2", "0", "0">>, <<"2", "4", "0", "0">>,
     <<"4", "5", "0", "0", "0">>}

SalaryEntries ==
    {<<>>, <<"a", "b", "c">>, <<"0">>, <<"1", "2", "0", "0", "0">>,
     <<"5", "5", "0", "0", "0">>}

RateEntries ==
    {<<>>, <<"0">>, <<"6", ".", "5">>, <<"1", "5">>,
     <<"1", "e", "-", "1", "6">>}

TermEntries ==
    {<<>>, <<"0">>, <<"1">>, <<"2", ".", "9">>, <<"1", "0">>,
     <<"5", "0", "0", "0">>}

VARIABLES
    values,    \* the record held by useState
    shown,     \* the figures of the last render
    lastEdit   \* per field, the last value handed to handleChange

vars == <<values, shown, lastEdit>>

Init ==
    /\ values = InitialValues
    /\ shown = App(InitialValues)
    /\ lastEdit = InitialValues

\* The four onChange handlers: handleChange(field, parse(text) || 0), and the
\* render the state update causes.
OnChangeTotalDebt ==
    \E s \in DebtEntries :
        LET value == OrZero(parseInt(s))
        IN  /\ values' = handleChange(values, "totalDebt", value)
            /\ shown' = Rendered(values, values')
            /\ lastEdit' = [lastEdit EXCEPT !["totalDebt"] = value]

OnChangeAnnualSalary ==
    \E s \in SalaryEntries :
        LET value == OrZero(parseInt(s))
        IN  /\ values' = handleChange(values, "annualSalary", value)
            /\ shown' = Rendered(values, values')
            /\ lastEdit' = [lastEdit EXCEPT !["annualSalary"] = value]

OnChangeInterestRate ==
    \E s \in RateEntries :
        LET value == OrZero(parseFloat(s))
        IN  /\ values' = handleChange(values, "interestRate", value)
            /\ shown' = Rendered(values, values')
            /\ lastEdit' = [lastEdit EXCEPT !["interestRate"] = value]

OnChangeRepaymentTerm ==
    \E s \in TermEntries :
        LET value == OrZero(parseInt(s))
        IN  /\ values' = handleChange(values, "repaymentTerm", value)
            /\ shown' = Rendered(values, values')
            /\ lastEdit' = [lastEdit EXCEPT !["repaymentTerm"] = value]

\* The "Calculate Ratio" button has no handler.
ClickCalculate == UNCHANGED vars

Next ==
    \/ OnChangeTotalDebt
    \/ OnChangeAnnualSalary
    \/ OnChangeInterestRate
    \/ OnChangeRepaymentTerm
    \/ ClickCalculate

Spec == Init /\ [][Next]_vars

(***************************************************************************)
(* Properties.                                                             *)
(***************************************************************************)

\* Every field of v is a finite number >= 0.
NonNegative(v) == \A f \in Fields : IsFin(v[f]) /\ Ge(v[f], Zero)

Severity(status) ==
    CASE status = "Comfortable" -> 0
      [] status = "Moderate"    -> 1
      [] status = "Stretched"   -> 2

\* C1: with annualSalary = 0 and the other inputs non-negative, both ratios
\* are 0 (no quotient by the zero salary is formed) and the status is
\* Comfortable.
C1_ZeroSalary ==
    (NonNegative(values) /\ IsZero(values.annualSalary)) =>
        /\ shown.debtToIncomeRatio = Zero
        /\ shown.paymentToIncomeRatio = Zero
        /\ shown.affordabilityStatus = "Comfortable"

C1_Witness ==
    /\ IsZero(values.annualSalary)
    /\ Gt(values.totalDebt, Zero)
    /\ Gt(values.interestRate, Zero)
    /\ Gt(values.repaymentTerm, Zero)
    /\ Gt(shown.monthlyPayment, Zero)
    /\ shown.debtToIncomeRatio = Zero
    /\ shown.affordabilityStatus = "Comfortable"

\* C2: with repaymentTerm = 0 the monthly payment is 0, whether the rate is
\* zero or positive, and so is the payment-to-income ratio.
C2_ZeroTerm ==
    (NonNegative(values) /\ IsZero(values.repaymentTerm)) =>
        /\ shown.monthlyPayment = Zero
        /\ shown.paymentToIncomeRatio = Zero

C2_Witness ==
    /\ IsZero(values.repaymentTerm)
    /\ Gt(values.totalDebt, Zero)
    /\ Gt(values.interestRate, Zero)
    /\ Gt(values.annualSalary, Zero)
    /\ shown.monthlyPayment = Zero

\* C3: the status is Stretched for a ratio > 20, Moderate for 10 < ratio <= 20
\* and Comfortable for a ratio <= 10; it is always one of the three, so 10 is
\* Comfortable and 20 is Moderate.
C3_Classification ==
    LET ratio  == shown.paymentToIncomeRatio
        status == shown.affordabilityStatus
    IN  /\ status \in {"Comfortable", "Moderate", "Stretched"}
        /\ Gt(ratio, Num(20)) => status = "Stretched"
        /\ (Gt(ratio, Num(10)) /\ Le(ratio, Num(20))) => status = "Moderate"
        /\ Le(ratio, Num(10)) => status = "Comfortable"

C3_Witness ==
    /\ shown.paymentToIncomeRatio = Num(10)
    /\ shown.affordabilityStatus = "Comfortable"

\* C4 (as amended): with interestRate = 0 and repaymentTerm > 0 the monthly
\* payment is the quotient totalDebt / (repaymentTerm * 12) as the number
\* arithmetic rounds it.
C4_StraightLine ==
    (NonNegative(values) /\ IsZero(values.interestRate)
        /\ Gt(values.repaymentTerm, Zero)) =>
        shown.monthlyPayment =
            Div(values.totalDebt, Mul(values.repaymentTerm, Num(12)))

C4_Witness ==
    /\ IsZero(values.interestRate)
    /\ Gt(values.repaymentTerm, Zero)
    /\ Gt(values.totalDebt, Zero)
    /\ shown.monthlyPayment =
           Div(values.totalDebt, Mul(values.repaymentTerm, Num(12)))
    /\ Mul(Mul(shown.monthlyPayment, values.repaymentTerm), Num(12))
           # values.totalDebt

\* C4 (as claimed): ... so that monthlyPayment * repaymentTerm * 12 is
\* totalDebt again.
C4_RoundTrip ==
    (NonNegative(values) /\ IsZero(values.interestRate)
        /\ Gt(values.repaymentTerm, Zero)) =>
        /\ shown.monthlyPayment =
               Div(values.totalDebt, Mul(values.repaymentTerm, Num(12)))
        /\ Mul(Mul(shown.monthlyPayment, values.repaymentTerm), Num(12))
               = values.totalDebt

\* C5: for non-negative inputs, with monthlyRate = interestRate/100/12 and
\* totalPayments = repaymentTerm*12, the payment is the amortization formula
\* when both are positive, totalDebt/totalPayments when only totalPayments
\* is, and 0 otherwise.
C5_Branches ==
    LET d  == values.totalDebt
        r  == Div(Div(values.interestRate, Num(100)), Num(12))
        n  == Mul(values.repaymentTerm, Num(12))
        g  == Pow(Add(Num(1), r), n)
        mp == shown.monthlyPayment
    IN  NonNegative(values) =>
            /\ (Gt(r, Zero) /\ Gt(n, Zero)) =>
                   mp = Div(Mul(Mul(d, r), g), Sub(g, Num(1)))
            /\ (~Gt(r, Zero) /\ Gt(n, Zero)) => mp = Div(d, n)
            /\ ~Gt(n, Zero) => mp = Zero

C5_Witness ==
    /\ NonNegative(values)
    /\ values # InitialValues
    /\ Gt(values.interestRate, Zero)
    /\ Gt(values.repaymentTerm, Zero)
    /\ IsFin(shown.monthlyPayment)
    /\ Gt(shown.monthlyPayment,
          Div(values.totalDebt, Mul(values.repaymentTerm, Num(12))))

\* C6: when an edit raises (or keeps) totalDebt and leaves the other three
\* inputs alone, all non-negative, none of monthlyPayment, debtToIncomeRatio
\* and paymentToIncomeRatio decreases, and the status does not become less
\* severe.
C6_MonotoneInDebt ==
    [][(/\ NonNegative(values)
        /\ NonNegative(values')
        /\ \A f \in Fields \ {"totalDebt"} : values'[f] = values[f]
        /\ Le(values.totalDebt, values'.totalDebt))
       => (/\ Le(shown.monthlyPayment, shown'.monthlyPayment)
           /\ Le(shown.debtToIncomeRatio, shown'.debtToIncomeRatio)
           /\ Le(shown.paymentToIncomeRatio, shown'.paymentToIncomeRatio)
           /\ Severity(shown.affordabilityStatus)
                  <= Severity(shown'.affordabilityStatus))]_vars

\* C7: for non-negative finite inputs the three figures are numbers >= 0 and
\* the status is one of Comfortable, Moderate, Stretched.
C7_NonNegativeResult ==
    NonNegative(values) =>
        /\ Ge(shown.debtToIncomeRatio, Zero)
        /\ Ge(shown.monthlyPayment, Zero)
        /\ Ge(shown.paymentToIncomeRatio, Zero)
        /\ shown.affordabilityStatus \in {"Comfortable", "Moderate", "Stretched"}

\* C8: whatever is typed into the four fields, every field of the stored
\* record is a finite number >= 0.
C8_StoredNonNegative ==
    \A f \in Fields : IsFin(values[f]) /\ Ge(values[f], Zero)

\* C9: the figures on screen are always those of the current record, with no
\* press of the button needed.
C9_NoStaleResult == shown = App(values)

C9_Witness ==
    /\ values # InitialValues
    /\ shown # App(InitialValues)
    /\ shown = App(values)

\* C10: each field holds the value of the last edit addressed to it (its
\* default if there was none), and edits of two different fields commute.
C10_LastEditWins ==
    /\ \A f \in Fields : values[f] = lastEdit[f]
    /\ \A f, g \in Fields :
           f # g =>
               handleChange(handleChange(values, f, Num(1)), g, Num(2))
                   = handleChange(handleChange(values, g, Num(2)), f, Num(1))

C10_Witness ==
    /\ values.totalDebt # InitialValues.totalDebt
    /\ values.repaymentTerm # InitialValues.repaymentTerm
    /\ values.annualSalary = InitialValues.annualSalary
    /\ values.interestRate = InitialValues.interestRate
    /\ lastEdit = values

====
